---- MODULE Spec2Model ----
(***************************************************************************)
(* GET /customers/me/orders (store API): the route handler of              *)
(* packages/medusa/src/api/routes/store/customers/list-orders.ts.          *)
(*                                                                         *)
(* A request carries a parsed query string (req.query) and the id of the   *)
(* authenticated customer (req.user.customer_id).  The handler validates   *)
(* the query, builds a selector and a list config, awaits                  *)
(* OrderService.listAndCount and answers with res.json.  The handler       *)
(* suspends at its two awaits, so several requests interleave there.       *)
(*                                                                         *)
(* Strings are sequences of one-character strings, so that split(","),     *)
(* Number(...) and new Date(...) are computed on the characters.           *)
(***************************************************************************)
EXTENDS Integers, Sequences, FiniteSets, TLC

VARIABLES
    allowedStoreOrdersFields,     \* module-level array imported from ../orders
    allowedStoreOrdersRelations,  \* module-level array imported from ../orders
    unknownProps,                 \* how the validator treats undeclared properties
    pc,                           \* per request: position in the handler
    query,                        \* per request: req.query
    user,                         \* per request: req.user.customer_id
    validated,                    \* per request: the handler's local `validated`
    calls,                        \* per request: the calls made to listAndCount
    svcLog,                       \* per request: what listAndCount answered
    response,                     \* per request: the bodies passed to res.json
    thrown                        \* per request: the errors leaving the handler

vars == <<allowedStoreOrdersFields, allowedStoreOrdersRelations, unknownProps,
          pc, query, user, validated, calls, svcLog, response, thrown>>

(***************************************************************************)
(* Bounds of the model.                                                    *)
(***************************************************************************)
MaxParams == 2
MaxTokens == 2
NumSlots == 2

(***************************************************************************)
(* Characters and strings.                                                 *)
(***************************************************************************)
Digits == <<"0", "1", "2", "3", "4", "5", "6", "7", "8", "9">>

IsDigit(c) == \E i \in 1..10 : Digits[i] = c

DigitVal(c) == (CHOOSE i \in 1..10 : Digits[i] = c) - 1

Range(s) == {s[i] : i \in 1..Len(s)}

\* the strings used as names and values
s_id          == <<"i", "d">>
s_email       == <<"e", "m", "a", "i", "l">>
s_secret      == <<"s", "e", "c", "r", "e", "t">>
s_items       == <<"i", "t", "e", "m", "s">>
s_region      == <<"r", "e", "g", "i", "o", "n">>
s_pending     == <<"p", "e", "n", "d", "i", "n", "g">>
s_completed   == <<"c", "o", "m", "p", "l", "e", "t", "e", "d">>
s_shipped     == <<"s", "h", "i", "p", "p", "e", "d">>
s_captured    == <<"c", "a", "p", "t", "u", "r", "e", "d">>
s_y2023       == <<"2", "0", "2", "3">>
s_y2024       == <<"2", "0", "2", "4">>
s_x           == <<"x">>
s_5           == <<"5">>
s_12          == <<"1", "2">>
s_cus1        == <<"c", "u", "s", "1">>
s_cus2        == <<"c", "u", "s", "2">>

(***************************************************************************)
(* JavaScript values: strings, numbers, NaN, undefined, arrays of strings, *)
(* plain objects of strings, and DateComparisonOperator instances.         *)
(***************************************************************************)
Str(s)     == [t |-> "str", s |-> s]
Num(n)     == [t |-> "num", n |-> n]
NaN        == [t |-> "nan"]
Undefined  == [t |-> "undef"]
List(l)    == [t |-> "list", l |-> l]
Obj(o)     == [t |-> "obj", o |-> o]
DateCmp(d) == [t |-> "datecmp", d |-> d]

\* lodash `identity` used as the predicate of pickBy: JavaScript truthiness
identity(v) ==
    CASE v.t = "str"   -> v.s # <<>>
      [] v.t = "num"   -> v.n # 0
      [] v.t = "nan"   -> FALSE
      [] v.t = "undef" -> FALSE
      [] OTHER         -> TRUE

(***************************************************************************)
(* Conversions.                                                            *)
(***************************************************************************)
\* String.prototype.split(","): the pieces between the commas, in order
RECURSIVE split(_)
split(s) ==
    IF \A i \in 1..Len(s) : s[i] # ","
    THEN <<s>>
    ELSE LET i == CHOOSE j \in 1..Len(s) :
                      s[j] = "," /\ \A k \in 1..(j - 1) : s[k] # ","
         IN  <<SubSeq(s, 1, i - 1)>> \o split(SubSeq(s, i + 1, Len(s)))

\* Array.prototype.join(","), as a query string spells a list
RECURSIVE join(_)
join(toks) ==
    IF Len(toks) = 0 THEN <<>>
    ELSE IF Len(toks) = 1 THEN toks[1]
    ELSE toks[1] \o <<",">> \o join(Tail(toks))

\* the value of a string of decimal digits
RECURSIVE DecimalValue(_)
DecimalValue(s) ==
    IF Len(s) = 0 THEN 0
    ELSE 10 * DecimalValue(SubSeq(s, 1, Len(s) - 1)) + DigitVal(s[Len(s)])

\* Number(string): the empty string is 0, digits are their value, else NaN
StringToNumber(s) ==
    IF \A i \in 1..Len(s) : IsDigit(s[i]) THEN Num(DecimalValue(s)) ELSE NaN

\* @Type(() => Number): Number(value); an array converts through its join
ToNumber(v) ==
    CASE v.t = "str"  -> StringToNumber(v.s)
      [] v.t = "list" -> StringToNumber(join(v.l))
      [] v.t = "num"  -> v
      [] OTHER        -> NaN

\* @Type(() => Date): new Date(string); a four-digit year is a valid date,
\* the time value of an invalid date is NaN
ToDate(s) ==
    IF Len(s) = 4 /\ \A i \in 1..4 : IsDigit(s[i])
    THEN Num(DecimalValue(s)) ELSE NaN

DateOperators == {"lt", "gt", "gte", "lte"}

\* @Type(() => DateComparisonOperator): an object becomes an instance whose
\* declared bounds are dates; any other value is left as it is
ToDateComparison(v) ==
    IF v.t = "obj"
    THEN DateCmp([op \in DOMAIN v.o |->
                     IF op \in DateOperators THEN ToDate(v.o[op]) ELSE Str(v.o[op])])
    ELSE v

(***************************************************************************)
(* The declared query parameters.                                          *)
(***************************************************************************)
DefaultLimit == 10
DefaultOffset == 0

NumberParams == {"limit", "offset"}
StringParams == {"fields", "expand", "id", "q", "display_id", "cart_id",
                 "email", "region_id", "currency_code", "tax_rate"}
EnumParams   == {"status", "fulfillment_status", "payment_status"}
DateParams   == {"created_at", "updated_at", "canceled_at"}
DeclaredParams == NumberParams \cup StringParams \cup EnumParams \cup DateParams

OrderStatus       == {s_pending, s_completed}
FulfillmentStatus == {s_shipped}
PaymentStatus     == {s_captured}

EnumOf(k) ==
    CASE k = "status"             -> OrderStatus
      [] k = "fulfillment_status" -> FulfillmentStatus
      [] k = "payment_status"     -> PaymentStatus

\* the decorators of one declared property, applied to its converted value
\* (@IsOptional skips undefined)
PropertyValid(k, v) ==
    \/ v.t = "undef"
    \/ CASE k \in NumberParams -> v.t = "num"
         [] k \in StringParams -> v.t = "str"
         [] k \in EnumParams   ->
                \/ v.t = "str" /\ v.s \in EnumOf(k)
                \/ v.t = "list" /\ \A i \in 1..Len(v.l) : v.l[i] \in EnumOf(k)
         [] k \in DateParams   ->
                /\ v.t = "datecmp"
                /\ \A op \in DOMAIN v.d \cap DateOperators : v.d[op].t = "num"

\* the instance built from the plain query: class defaults for limit and
\* offset, @Type conversions for the numbers and the date comparisons
plainToInstance(q) ==
    [k \in DOMAIN q \cup NumberParams |->
        IF k \notin DOMAIN q
        THEN (IF k = "limit" THEN Num(DefaultLimit) ELSE Num(DefaultOffset))
        ELSE IF k \in NumberParams THEN ToNumber(q[k])
        ELSE IF k \in DateParams THEN ToDateComparison(q[k])
        ELSE q[k]]

(***************************************************************************)
(* utils/validator: converts, validates, and throws on any error.  An      *)
(* undeclared property is rejected ("forbid"), removed ("strip") or left   *)
(* in the instance ("keep"), as the validator is configured.               *)
(***************************************************************************)
UnknownPropsModes == {"forbid", "strip", "keep"}

ValidationErrors(q, mode) ==
    {k \in DOMAIN q :
        \/ k \in DeclaredParams /\ ~PropertyValid(k, plainToInstance(q)[k])
        \/ k \notin DeclaredParams /\ mode = "forbid"}

ValidationError(props) == [name |-> "ValidationError", properties |-> props]

validator(q, mode) ==
    LET inst == plainToInstance(q)
        errs == ValidationErrors(q, mode)
    IN  IF errs # {}
        THEN [ok |-> FALSE, error |-> ValidationError(errs)]
        ELSE [ok |-> TRUE,
              value |-> IF mode = "strip"
                        THEN [k \in DOMAIN inst \cap DeclaredParams |-> inst[k]]
                        ELSE inst]

(***************************************************************************)
(* The handler's computations between its awaits.                          *)
(***************************************************************************)
\* validated["customer_id"] = id
SetCustomerId(v, id) ==
    [k \in DOMAIN v \cup {"customer_id"} |-> IF k = "customer_id" THEN id ELSE v[k]]

\* faulty variant: the entries are split but not checked against the allow-list
AllowedEntries_unfiltered(v, k, allowed) ==
    IF k \in DOMAIN v /\ identity(v[k]) THEN split(v[k].s) ELSE <<>>

\* the entries of a comma-separated parameter that the allow-list includes
AllowedEntries(v, k, allowed) ==
    IF k \in DOMAIN v /\ identity(v[k])
    THEN SelectSeq(split(v[k].s), LAMBDA f : f \in Range(allowed))
    ELSE <<>>

includeFields(v, allowedFields) == AllowedEntries(v, "fields", allowedFields)

expandFields(v, allowedRelations) == AllowedEntries(v, "expand", allowedRelations)

CreatedAtDesc == [created_at |-> "DESC"]

\* faulty variant: skip and take exchanged
listConfigOf_swapped(v, allowedFields, allowedRelations) ==
    [select    |-> IF Len(includeFields(v, allowedFields)) # 0
                   THEN includeFields(v, allowedFields) ELSE allowedFields,
     relations |-> IF Len(expandFields(v, allowedRelations)) # 0
                   THEN expandFields(v, allowedRelations) ELSE allowedRelations,
     skip      |-> v["limit"],
     take      |-> v["offset"],
     order     |-> CreatedAtDesc]

listConfigOf(v, allowedFields, allowedRelations) ==
    [select    |-> IF Len(includeFields(v, allowedFields)) # 0
                   THEN includeFields(v, allowedFields) ELSE allowedFields,
     relations |-> IF Len(expandFields(v, allowedRelations)) # 0
                   THEN expandFields(v, allowedRelations) ELSE allowedRelations,
     skip      |-> v["offset"],
     take      |-> v["limit"],
     order     |-> CreatedAtDesc]

\* _.omit(object, keys)
omit(m, ks) == [k \in DOMAIN m \ ks |-> m[k]]

\* _.pickBy(object, identity)
pickBy(m) == [k \in {x \in DOMAIN m : identity(m[x])} |-> m[k]]

\* faulty variant: `fields` is not omitted
OmittedKeys_noFields == {"limit", "offset", "expand"}

OmittedKeys == {"limit", "offset", "expand", "fields"}

filterableFields(v) == omit(v, OmittedKeys)

\* faulty variant: the filterable fields are passed without pickBy
selectorOf_noPick(v) == filterableFields(v)

selectorOf(v) == pickBy(filterableFields(v))

\* faulty variant: the defaults are echoed in place of the validated values
responseBody_defaults(result, v) ==
    [orders |-> result.orders, count |-> result.count,
     offset |-> Num(DefaultOffset), limit |-> Num(DefaultLimit)]

\* the body handed to res.json
responseBody(result, v) ==
    [orders |-> result.orders, count |-> result.count,
     offset |-> v["offset"], limit |-> v["limit"]]

(***************************************************************************)
(* The environment: the allow-lists of ../orders, the queries a client     *)
(* sends (as the query-string parser delivers them: strings, non-empty     *)
(* arrays of strings, non-empty objects of strings), the authenticated     *)
(* ids, and the answers of OrderService.listAndCount.                      *)
(***************************************************************************)
StoreOrdersFields    == <<s_id, s_email>>
StoreOrdersRelations == <<s_items, s_region>>

FieldTokens    == {s_id, s_email, s_secret}
RelationTokens == {s_items, s_region, s_x}

TokenLists(T) == UNION {[1..n -> T] : n \in 0..MaxTokens}

CommaStrings(T) == {Str(join(l)) : l \in TokenLists(T)}

RawValues(k) ==
    CASE k = "limit"       -> {Str(<<>>), Str(s_5), Str(s_x)}
      [] k = "offset"      -> {Str(s_12), List(<<s_5>>)}
      [] k = "fields"      -> CommaStrings(FieldTokens) \cup {Str(<<",">>)}
      [] k = "expand"      -> {Str(s_x), Str(join(<<s_x, s_items>>)),
                               Str(join(<<s_region, s_items>>))}
      [] k = "email"       -> {Str(<<>>), Str(s_x), List(<<s_x>>)}
      [] k = "status"      -> {Str(s_pending), Str(s_captured),
                               List(<<s_pending, s_completed>>),
                               List(<<s_pending, s_x>>)}
      [] k = "payment_status" -> {List(<<s_captured>>), Str(<<>>)}
      [] k = "created_at"  -> {Obj("lt" :> s_y2023),
                               Obj(("gt" :> s_y2023) @@ ("lt" :> s_y2024)),
                               Obj("lt" :> s_x), Str(s_y2023)}
      [] k = "canceled_at" -> {Obj("gt" :> s_y2023)}
      [] k = "cancelled_at" -> {Obj("gt" :> s_y2023)}
      [] k = "customer_id" -> {Str(s_cus2)}
      [] k = "order"       -> {Str(s_x)}

QueryParams == {"limit", "offset", "fields", "expand", "email", "status",
                "payment_status", "created_at", "canceled_at", "cancelled_at",
                "customer_id", "order"}

RECURSIVE QueriesUpTo(_)
QueriesUpTo(n) ==
    IF n = 0 THEN {<<>>}
    ELSE LET S == QueriesUpTo(n - 1)
         IN  S \cup UNION {UNION {{q @@ (k :> v) : v \in RawValues(k)} :
                                     k \in QueryParams \ DOMAIN q} : q \in S}

Queries == QueriesUpTo(MaxParams)

\* the queries of the interleaved requests
ConcQueries ==
    {("limit" :> Str(s_5)) @@ ("fields" :> Str(join(<<s_secret, s_id>>))),
     "customer_id" :> Str(s_cus2)}

\* req.user.customer_id: a customer's id, the empty string, or undefined when
\* the authenticated principal carries no customer id
CustomerIds == {Undefined, Str(<<>>), Str(s_cus1), Str(s_cus2)}

Results == {[orders |-> <<>>, count |-> 0],
            [orders |-> <<"order_1">>, count |-> 2]}

ServiceErrors == {[name |-> "QueryFailedError"]}

Slots == 1..NumSlots

(***************************************************************************)
(* The handler.                                                            *)
(***************************************************************************)
Init ==
    /\ allowedStoreOrdersFields = StoreOrdersFields
    /\ allowedStoreOrdersRelations = StoreOrdersRelations
    /\ unknownProps \in UnknownPropsModes
    /\ pc = [r \in Slots |-> "idle"]
    /\ query = [r \in Slots |-> <<>>]
    /\ user = [r \in Slots |-> Undefined]
    /\ validated = [r \in Slots |-> <<>>]
    /\ calls = [r \in Slots |-> <<>>]
    /\ svcLog = [r \in Slots |-> <<>>]
    /\ response = [r \in Slots |-> <<>>]
    /\ thrown = [r \in Slots |-> <<>>]

\* a request arrives: the handler reads req.user.customer_id, resolves the
\* order service and awaits the validator
Receive(r, Q) ==
    /\ pc[r] = "idle"
    /\ \E q \in Q, id \in CustomerIds :
        /\ query' = [query EXCEPT ![r] = q]
        /\ user' = [user EXCEPT ![r] = id]
    /\ pc' = [pc EXCEPT ![r] = "validating"]
    /\ UNCHANGED <<allowedStoreOrdersFields, allowedStoreOrdersRelations,
                   unknownProps, validated, calls, svcLog, response, thrown>>

\* faulty variant: the validator's errors are ignored and the instance is used
ValidatorOutcome_ignored(r) == [ok |-> TRUE, value |-> plainToInstance(query[r])]

\* await validator(StoreGetCustomersCustomerOrdersParams, req.query)
ValidatorOutcome(r) == validator(query[r], unknownProps)

\* faulty variant: the allow-list is narrowed in place to the requested fields
ValidatorResolves_inplace(r) ==
    /\ pc[r] = "validating"
    /\ ValidatorOutcome(r).ok
    /\ LET v == SetCustomerId(ValidatorOutcome(r).value, user[r])
           c == listConfigOf(v, allowedStoreOrdersFields, allowedStoreOrdersRelations)
       IN  /\ validated' = [validated EXCEPT ![r] = v]
           /\ calls' = [calls EXCEPT ![r] = Append(@,
                  [selector |-> selectorOf(v), config |-> c])]
           /\ allowedStoreOrdersFields' = c.select
    /\ pc' = [pc EXCEPT ![r] = "querying"]
    /\ UNCHANGED <<allowedStoreOrdersRelations,
                   unknownProps, query, user, svcLog, response, thrown>>

\* the validator resolves: the handler runs up to the call of listAndCount
ValidatorResolves(r) ==
    /\ pc[r] = "validating"
    /\ ValidatorOutcome(r).ok
    /\ LET v == SetCustomerId(ValidatorOutcome(r).value, user[r])
       IN  /\ validated' = [validated EXCEPT ![r] = v]
           /\ calls' = [calls EXCEPT ![r] = Append(@,
                  [selector |-> selectorOf(v),
                   config   |-> listConfigOf(v, allowedStoreOrdersFields,
                                             allowedStoreOrdersRelations)])]
    /\ pc' = [pc EXCEPT ![r] = "querying"]
    /\ UNCHANGED <<allowedStoreOrdersFields, allowedStoreOrdersRelations,
                   unknownProps, query, user, svcLog, response, thrown>>

\* the validator rejects: the error leaves the handler
ValidatorRejects(r) ==
    /\ pc[r] = "validating"
    /\ ~ValidatorOutcome(r).ok
    /\ thrown' = [thrown EXCEPT ![r] = Append(@, ValidatorOutcome(r).error)]
    /\ pc' = [pc EXCEPT ![r] = "failed"]
    /\ UNCHANGED <<allowedStoreOrdersFields, allowedStoreOrdersRelations,
                   unknownProps, query, user, validated, calls, svcLog, response>>

\* listAndCount resolves with [orders, count]: res.json
ListAndCountResolves(r) ==
    /\ pc[r] = "querying"
    /\ \E result \in Results :
        /\ svcLog' = [svcLog EXCEPT ![r] = Append(@, [ok |-> TRUE, result |-> result])]
        /\ response' = [response EXCEPT ![r] =
                           Append(@, responseBody(result, validated[r]))]
    /\ pc' = [pc EXCEPT ![r] = "done"]
    /\ UNCHANGED <<allowedStoreOrdersFields, allowedStoreOrdersRelations,
                   unknownProps, query, user, validated, calls, thrown>>

\* faulty variant: the error is caught and an empty page is answered
ListAndCountRejects_swallow(r) ==
    /\ pc[r] = "querying"
    /\ \E e \in ServiceErrors :
        /\ svcLog' = [svcLog EXCEPT ![r] = Append(@, [ok |-> FALSE, error |-> e])]
        /\ response' = [response EXCEPT ![r] =
               Append(@, responseBody([orders |-> <<>>, count |-> 0], validated[r]))]
    /\ pc' = [pc EXCEPT ![r] = "done"]
    /\ UNCHANGED <<allowedStoreOrdersFields, allowedStoreOrdersRelations,
                   unknownProps, query, user, validated, calls, thrown>>

\* listAndCount rejects: the error leaves the handler
ListAndCountRejects(r) ==
    /\ pc[r] = "querying"
    /\ \E e \in ServiceErrors :
        /\ svcLog' = [svcLog EXCEPT ![r] = Append(@, [ok |-> FALSE, error |-> e])]
        /\ thrown' = [thrown EXCEPT ![r] = Append(@, e)]
    /\ pc' = [pc EXCEPT ![r] = "failed"]
    /\ UNCHANGED <<allowedStoreOrdersFields, allowedStoreOrdersRelations,
                   unknownProps, query, user, validated, calls, response>>

\* the request is over: its objects are discarded
Finish(r) ==
    /\ pc[r] \in {"done", "failed"}
    /\ pc' = [pc EXCEPT ![r] = "idle"]
    /\ query' = [query EXCEPT ![r] = <<>>]
    /\ user' = [user EXCEPT ![r] = Undefined]
    /\ validated' = [validated EXCEPT ![r] = <<>>]
    /\ calls' = [calls EXCEPT ![r] = <<>>]
    /\ svcLog' = [svcLog EXCEPT ![r] = <<>>]
    /\ response' = [response EXCEPT ![r] = <<>>]
    /\ thrown' = [thrown EXCEPT ![r] = <<>>]
    /\ UNCHANGED <<allowedStoreOrdersFields, allowedStoreOrdersRelations,
                   unknownProps>>

\* one request at a time, any query
Next ==
    \/ Receive(1, Queries)
    \/ ValidatorResolves(1)
    \/ ValidatorRejects(1)
    \/ ListAndCountResolves(1)
    \/ ListAndCountRejects(1)
    \/ Finish(1)

Spec == Init /\ [][Next]_vars

\* requests interleaved at the awaits
NextConc ==
    \E r \in Slots :
        \/ Receive(r, ConcQueries)
        \/ ValidatorResolves(r)
        \/ ValidatorRejects(r)
        \/ ListAndCountResolves(r)
        \/ ListAndCountRejects(r)
        \/ Finish(r)

SpecConc == Init /\ [][NextConc]_vars

(***************************************************************************)
(* Properties.                                                             *)
(***************************************************************************)
Called(r) == Len(calls[r]) > 0

Selector(r) == calls[r][1].selector

Config(r) == calls[r][1].config

\* C1: whenever listAndCount is called, its selector has the key customer_id
\* and the value is the authenticated caller's id, whatever the query holds
\* and whatever the id is.
C1_CustomerIdIsCallers ==
    \A r \in Slots :
        Called(r) =>
            /\ "customer_id" \in DOMAIN Selector(r)
            /\ Selector(r)["customer_id"] = user[r]

\* the token lists that spell a comma-separated string, with the string
FieldSpellings ==
    {[toks |-> l, s |-> join(l)] : l \in TokenLists(FieldTokens \cup {<<>>})}

RelationSpellings ==
    {[toks |-> l, s |-> join(l)] : l \in TokenLists(RelationTokens \cup {<<>>})}

Projected(q, k, out, allowed, spellings) ==
    IF k \notin DOMAIN q \/ q[k].s = <<>>
    THEN out = allowed
    ELSE /\ \E sp \in spellings : sp.s = q[k].s
         /\ \A sp \in spellings :
                sp.s = q[k].s =>
                    LET kept == SelectSeq(sp.toks, LAMBDA f : f \in Range(allowed))
                    IN  out = IF kept # <<>> THEN kept ELSE allowed

\* C2: select is the allow-listed entries of `fields`, in input order, when
\* there is one, and the full allow-list otherwise; the same for `expand`
\* and relations; both are subsets of their allow-lists.
C2_ProjectionSanitized ==
    \A r \in Slots :
        Called(r) =>
            /\ Projected(query[r], "fields", Config(r).select,
                         StoreOrdersFields, FieldSpellings)
            /\ Projected(query[r], "expand", Config(r).relations,
                         StoreOrdersRelations, RelationSpellings)
            /\ Range(Config(r).select) \subseteq Range(StoreOrdersFields)
            /\ Range(Config(r).relations) \subseteq Range(StoreOrdersRelations)

C2_Witness ==
    /\ Called(1)
    /\ "fields" \in DOMAIN query[1]
    /\ query[1]["fields"] = Str(join(<<s_secret, s_email>>))
    /\ Config(1).select = <<s_email>>
    /\ Config(1).relations = StoreOrdersRelations

NonEmptyValue(v) ==
    /\ v.t \notin {"undef", "nan"}
    /\ v.t = "str" => v.s # <<>>
    /\ v.t = "list" => v.l # <<>>
    /\ v.t = "obj" => DOMAIN v.o # {}
    /\ v.t = "datecmp" => DOMAIN v.d # {}

\* C3: no key of the selector has an empty, null or undefined value, and a
\* parameter that is absent from the query is absent from the selector.
C3_NoEmptyFilter ==
    \A r \in Slots :
        Called(r) =>
            \A k \in DOMAIN Selector(r) :
                /\ NonEmptyValue(Selector(r)[k])
                /\ k \in DOMAIN query[r] \/ k = "customer_id"

C3_Witness ==
    /\ Called(1)
    /\ "email" \in DOMAIN query[1]
    /\ query[1]["email"] = Str(<<>>)
    /\ "email" \notin DOMAIN Selector(1)
    /\ "email" \in DOMAIN validated[1]

\* C4: the selector has none of the keys limit, offset, fields, expand.
C4_NoControlKeys ==
    \A r \in Slots :
        Called(r) =>
            DOMAIN Selector(r) \cap {"limit", "offset", "fields", "expand"} = {}

C4_Witness ==
    /\ Called(1)
    /\ DOMAIN query[1] = {"limit", "fields"}
    /\ query[1]["limit"] = Str(s_5)
    /\ query[1]["fields"] = Str(s_id)
    /\ "customer_id" \in DOMAIN Selector(1)

BadEnum(q) ==
    \E k \in EnumParams \cap DOMAIN q :
        \/ q[k].t = "str" /\ q[k].s \notin EnumOf(k)
        \/ q[k].t = "list" /\ \E i \in 1..Len(q[k].l) : q[k].l[i] \notin EnumOf(k)

BadType(q) ==
    \/ \E k \in StringParams \cap DOMAIN q : q[k].t # "str"
    \/ \E k \in NumberParams \cap DOMAIN q : ToNumber(q[k]).t = "nan"

BadDate(q) ==
    \E k \in DateParams \cap DOMAIN q :
        \/ q[k].t # "obj"
        \/ q[k].t = "obj" /\ \E op \in DOMAIN q[k].o : ToDate(q[k].o[op]).t = "nan"

\* C5: when a parameter fails its type, enum or date-comparison check, the
\* handler calls listAndCount never and emits no response; the validation
\* error is the only outcome.
C5_InvalidHalts ==
    \A r \in Slots :
        (BadEnum(query[r]) \/ BadType(query[r]) \/ BadDate(query[r])) =>
            /\ pc[r] \in {"validating", "failed"}
            /\ calls[r] = <<>>
            /\ response[r] = <<>>
            /\ svcLog[r] = <<>>
            /\ pc[r] = "failed" =>
                   Len(thrown[r]) = 1 /\ thrown[r][1].name = "ValidationError"

C5_Witness ==
    /\ pc[1] = "failed"
    /\ BadEnum(query[1])
    /\ ~BadType(query[1]) /\ ~BadDate(query[1])
    /\ Len(thrown[1]) = 1

NumberOr(q, k, default) == IF k \in DOMAIN q THEN ToNumber(q[k]) ELSE Num(default)

\* C6: the response's limit and offset are the supplied values as numbers, or
\* 10 and 0 when absent, and its orders and count are those listAndCount
\* returned.
C6_ResponseEchoes ==
    \A r \in Slots :
        response[r] # <<>> =>
            /\ Len(response[r]) = 1
            /\ response[r][1].limit = NumberOr(query[r], "limit", 10)
            /\ response[r][1].offset = NumberOr(query[r], "offset", 0)
            /\ Len(svcLog[r]) = 1 /\ svcLog[r][1].ok
            /\ response[r][1].orders = svcLog[r][1].result.orders
            /\ response[r][1].count = svcLog[r][1].result.count

C6_Witness ==
    /\ pc[1] = "done"
    /\ DOMAIN query[1] = {"limit"}
    /\ query[1]["limit"] = Str(s_5)
    /\ response[1] = <<[orders |-> <<"order_1">>, count |-> 2,
                        offset |-> Num(0), limit |-> Num(5)]>>

\* C7: a date-range object under cancelled_at is accepted and reaches
\* listAndCount as the date comparison on the cancellation timestamp
\* (canceled_at), converted as created_at and updated_at are.
C7_CancelledAtFilters ==
    \A r \in Slots :
        "cancelled_at" \in DOMAIN query[r] =>
            /\ DOMAIN query[r] = {"cancelled_at"} => thrown[r] = <<>>
            /\ Called(r) =>
                /\ "canceled_at" \in DOMAIN Selector(r)
                /\ Selector(r)["canceled_at"] =
                       ToDateComparison(query[r]["cancelled_at"])

\* C8: listAndCount is called at most once per request; when it fails, its
\* error leaves the handler as it is, there is no second call and no response.
C8_FailurePropagates ==
    \A r \in Slots :
        /\ Len(calls[r]) <= 1
        /\ Len(svcLog[r]) <= 1
        /\ (svcLog[r] # <<>> /\ ~svcLog[r][1].ok) =>
               /\ thrown[r] = <<svcLog[r][1].error>>
               /\ response[r] = <<>>
               /\ pc[r] = "failed"

C8_Witness ==
    /\ pc[1] = "failed"
    /\ Len(calls[1]) = 1
    /\ svcLog[1] # <<>> /\ ~svcLog[1][1].ok
    /\ thrown[1] = <<[name |-> "QueryFailedError"]>>

\* C9: the list config has skip = the validated offset, take = the validated
\* limit and order = created_at descending, whatever the query holds.
C9_PagingAndOrder ==
    \A r \in Slots :
        Called(r) =>
            /\ Config(r).skip = NumberOr(query[r], "offset", 0)
            /\ Config(r).take = NumberOr(query[r], "limit", 10)
            /\ Config(r).order = [created_at |-> "DESC"]

C9_Witness ==
    /\ Called(1)
    /\ DOMAIN query[1] = {"offset", "order"}
    /\ query[1]["offset"] = Str(s_12)
    /\ Config(1).skip = Num(12)
    /\ Config(1).take = Num(10)

\* C10: under any interleaving the allow-lists stay as they were, and two
\* requests with the same query and the same caller pass the same selector
\* and list config and return the same offset and limit.
C10_Independent ==
    /\ allowedStoreOrdersFields = StoreOrdersFields
    /\ allowedStoreOrdersRelations = StoreOrdersRelations
    /\ \A r1, r2 \in Slots :
        (Called(r1) /\ Called(r2) /\ query[r1] = query[r2] /\ user[r1] = user[r2]) =>
            /\ calls[r1] = calls[r2]
            /\ (response[r1] # <<>> /\ response[r2] # <<>>) =>
                   /\ response[r1][1].offset = response[r2][1].offset
                   /\ response[r1][1].limit = response[r2][1].limit

C10_Witness ==
    /\ pc[1] = "done" /\ pc[2] = "querying"
    /\ query[1] = query[2] /\ user[1] = user[2]
    /\ "fields" \in DOMAIN query[1]
    /\ response[1] # <<>>

====
